---------------------------- MODULE Spec2Model ----------------------------
(***************************************************************************)
(* A model of apss24/project/tools/bin2img_fp32.py: the script that reads  *)
(* a raw file of 32-bit floats, normalises the first 3 x 128 x 128 of them *)
(* to [0, 255], casts them to bytes and saves a 128 x 128 RGB image.       *)
(*                                                                         *)
(* The script is straight-line code; every statement is one action and pc  *)
(* names the statement that runs next.  The float32 arithmetic of numpy is *)
(* modelled bit for bit (IEEE-754 binary32, round to nearest even, with    *)
(* subnormals, infinities and NaN); a float is the record of its three     *)
(* fields [s, e, m].  The image is scaled down from 128 x 128 to H x W.    *)
(***************************************************************************)
EXTENDS Integers, Sequences, FiniteSets

(***************************************************************************)
(* Sizes.                                                                  *)
(***************************************************************************)
\* Rows of the image (128 in the script).
H == 2
\* Columns of the image (128 in the script).
W == 2
\* Planes of the input tensor.
CH == 3
\* Bytes per float32 sample.
BytesPerFloat == 4
\* Largest len(sys.argv) tried.
MaxArgc == 4
\* Largest number of bytes tried after the consumed prefix of the file.
MaxExtra == 5

NSamples == CH * H * W
NBytes == NSamples * BytesPerFloat

(***************************************************************************)
(* IEEE-754 binary32.                                                      *)
(***************************************************************************)
F32(s, e, m) == [s |-> s, e |-> e, m |-> m]

\* The hidden bit of a normal significand.
Hidden == 2^23
F32Zero == F32(0, 0, 0)
F32NaN == F32(1, 255, 4194304)   \* the default quiet NaN

IsNaN(x) == x.e = 255 /\ x.m # 0
IsInf(x) == x.e = 255 /\ x.m = 0
IsZero(x) == x.e = 0 /\ x.m = 0
IsFinite(x) == x.e < 255

\* The significand as an integer, and the exponent of its last bit:
\* a finite x is (-1)^s * Sig(x) * 2^Exp(x).
Sig(x) == IF x.e = 0 THEN x.m ELSE x.m + Hidden
Exp(x) == (IF x.e = 0 THEN 1 ELSE x.e) - 150

Pow2 == [k \in 0..30 |-> 2^k]

\* Number of bits of n (0 for 0), n < 2^31.
BitLen(n) ==
  LET RECURSIVE bl(_)
      bl(k) == IF k = 0 \/ n >= Pow2[k - 1] THEN k ELSE bl(k - 1)
  IN bl(31)

\* (-1)^s * (M + sticky) * 2^E rounded to nearest, ties to even, where sticky
\* stands for a nonzero amount below the last bit of M.  M < 2^31.
F32Round(s, M, E, sticky) ==
  IF M = 0 THEN F32(s, 0, 0)
  ELSE
    LET nb == BitLen(M)
        shift == IF nb - 24 > (-149) - E THEN nb - 24 ELSE (-149) - E
    IN IF shift <= 0
       THEN \* exact: place the significand
            LET room == 24 - nb
                down == E + 149
                l == IF room < down THEN room ELSE down
                m == M * 2^l
                ef == E - l
            IN IF m >= Hidden
               THEN IF ef + 150 >= 255 THEN F32(s, 255, 0)
                    ELSE F32(s, ef + 150, m - Hidden)
               ELSE F32(s, 0, m)
       ELSE IF shift > nb THEN F32(s, 0, 0)
       ELSE
         LET q == IF shift = nb THEN 0 ELSE M \div 2^shift
             r == IF shift = nb THEN M ELSE M % 2^shift
             half == 2^(shift - 1)
             up == r > half \/ (r = half /\ (sticky \/ q % 2 = 1))
             m0 == IF up THEN q + 1 ELSE q
             m == IF m0 = 2 * Hidden THEN Hidden ELSE m0
             ef == IF m0 = 2 * Hidden THEN E + shift + 1 ELSE E + shift
         IN IF m >= Hidden
            THEN IF ef + 150 >= 255 THEN F32(s, 255, 0)
                 ELSE F32(s, ef + 150, m - Hidden)
            ELSE F32(s, 0, m)

F32Neg(x) == F32(1 - x.s, x.e, x.m)

\* a + b for finite a and b.
F32AddFinite(a, b) ==
  LET swap == Exp(a) < Exp(b)
      x == IF swap THEN b ELSE a
      y == IF swap THEN a ELSE b
      d == Exp(x) - Exp(y)
      g == IF d < 5 THEN d ELSE 5
      X == Sig(x) * 2^g
      cut == d - g
      Y == IF cut >= 25 THEN 0 ELSE Sig(y) \div 2^cut
      lost == IF cut >= 25 THEN Sig(y) # 0 ELSE Sig(y) % 2^cut # 0
      E == Exp(x) - g
  IN IF x.s = y.s
     THEN IF X + Y = 0 THEN F32(x.s, 0, 0) ELSE F32Round(x.s, X + Y, E, lost)
     ELSE IF X = Y /\ ~lost THEN F32Zero
     ELSE IF X > Y
     THEN F32Round(x.s, IF lost THEN X - Y - 1 ELSE X - Y, E, lost)
     ELSE F32Round(y.s, Y - X, E, FALSE)

\* a - b as numpy computes it on float32 operands.
F32Sub(a, b) ==
  IF IsNaN(a) \/ IsNaN(b) THEN F32NaN
  ELSE IF IsInf(a) /\ IsInf(b) THEN (IF a.s = b.s THEN F32NaN ELSE a)
  ELSE IF IsInf(a) THEN a
  ELSE IF IsInf(b) THEN F32Neg(b)
  ELSE F32AddFinite(a, F32Neg(b))

\* a / b for finite nonzero a and b: both significands are brought to 24 bits and
\* 28 quotient bits are produced seven at a time.
F32DivFinite(a, b) ==
  LET la == 24 - BitLen(Sig(a))
      lb == 24 - BitLen(Sig(b))
      Ma == Sig(a) * 2^la
      Mb == Sig(b) * 2^lb
      q0 == Ma \div Mb
      r0 == Ma % Mb
      q1 == (r0 * 128) \div Mb
      r1 == (r0 * 128) % Mb
      q2 == (r1 * 128) \div Mb
      r2 == (r1 * 128) % Mb
      q3 == (r2 * 128) \div Mb
      r3 == (r2 * 128) % Mb
      q4 == (r3 * 128) \div Mb
      r4 == (r3 * 128) % Mb
      Q == q0 * 268435456 + q1 * 2097152 + q2 * 16384 + q3 * 128 + q4
      E == (Exp(a) - la) - (Exp(b) - lb) - 28
      s == (a.s + b.s) % 2
  IN F32Round(s, Q, E, r4 # 0)

\* a / b as numpy computes it on float32 operands (a division by zero is a
\* RuntimeWarning, not an exception).
F32Div(a, b) ==
  LET s == (a.s + b.s) % 2
  IN IF IsNaN(a) \/ IsNaN(b) THEN F32NaN
     ELSE IF IsInf(a) THEN (IF IsInf(b) THEN F32NaN ELSE F32(s, 255, 0))
     ELSE IF IsInf(b) THEN F32(s, 0, 0)
     ELSE IF IsZero(b) THEN (IF IsZero(a) THEN F32NaN ELSE F32(s, 255, 0))
     ELSE IF IsZero(a) THEN F32(s, 0, 0)
     ELSE F32DivFinite(a, b)

\* A slip in the scale: x * 256.0, which sends the maximum to 256.
F32Mul255_By256(x) ==
  IF IsNaN(x) THEN F32NaN
  ELSE IF IsInf(x) \/ IsZero(x) THEN x
  ELSE F32Round(x.s, Sig(x), Exp(x) + 8, FALSE)

\* x * 255.0 in float32.
F32Mul255(x) ==
  IF IsNaN(x) THEN F32NaN
  ELSE IF IsInf(x) \/ IsZero(x) THEN x
  ELSE IF Sig(x) < Hidden THEN F32Round(x.s, 255 * Sig(x), Exp(x), FALSE)
  ELSE LET Mh == Sig(x) \div 256
           Ml == Sig(x) % 256
       IN F32Round(x.s, 255 * Mh * 32 + (255 * Ml) \div 8, Exp(x) + 3,
                   (255 * Ml) % 8 # 0)

\* a < b and a = b as IEEE comparisons (false when either is NaN).
F32Lt(a, b) ==
  LET mag(x) == x.e * Hidden + x.m
      key(x) == IF x.s = 1 THEN 0 - mag(x) ELSE mag(x)
  IN ~IsNaN(a) /\ ~IsNaN(b) /\ key(a) < key(b)

F32Eq(a, b) ==
  ~IsNaN(a) /\ ~IsNaN(b) /\ ((IsZero(a) /\ IsZero(b)) \/ a = b)

F32Le(a, b) == F32Lt(a, b) \/ F32Eq(a, b)

\* The float32 of a small natural number (exact below 2^24).
F32FromNat(n) == F32Round(0, n, 0, FALSE)

(***************************************************************************)
(* The script's operations on its data.                                    *)
(***************************************************************************)
Min2(a, b) == IF a < b THEN a ELSE b

\* A slip in the argument check: the program's own name is not counted.
UsageError_OffByOne(n) == n < 2

\* len(sys.argv) < 3
UsageError(n) == n < 3

\* A slip in the slice: the whole file is kept.
Slice_WholeFile(bin) == bin

\* input_bin[:3 * 128 * 128 * 4]
Slice(bin) == SubSeq(bin, 1, Min2(Len(bin), NBytes))

\* One little-endian float32 from its four bytes.
DecodeF32(b0, b1, b2, b3) ==
  F32(b3 \div 128, (b3 % 128) * 2 + b2 \div 128, (b2 % 128) * 65536 + b1 * 256 + b0)

\* np.frombuffer raises ValueError unless the buffer is a whole number of items.
FromBufferFails(bin) == Len(bin) % BytesPerFloat # 0

\* np.frombuffer(input_bin, dtype=np.float32)
FromBuffer(bin) ==
  [i \in 1..(Len(bin) \div BytesPerFloat) |->
     DecodeF32(bin[BytesPerFloat * (i - 1) + 1], bin[BytesPerFloat * (i - 1) + 2],
               bin[BytesPerFloat * (i - 1) + 3], bin[BytesPerFloat * (i - 1) + 4])]

\* A slip in the reshape: np.resize, which repeats a short array to fill the shape.
Reshape_Resize(flat) ==
  IF Len(flat) = 0
  THEN [ok |-> FALSE, value |-> << >>]
  ELSE [ok |-> TRUE,
        value |-> [k \in 0..(CH - 1) |-> [r \in 0..(H - 1) |-> [c \in 0..(W - 1) |->
                     flat[((k * H * W + r * W + c) % Len(flat)) + 1]]]]]

\* input_array.reshape(3, 128, 128): ValueError unless the sizes agree (ok is
\* FALSE); else the elements in C order, the last axis running fastest.
Reshape(flat) ==
  IF Len(flat) # CH * H * W
  THEN [ok |-> FALSE, value |-> << >>]
  ELSE [ok |-> TRUE,
        value |-> [k \in 0..(CH - 1) |-> [r \in 0..(H - 1) |-> [c \in 0..(W - 1) |->
                     flat[k * H * W + r * W + c + 1]]]]]

\* The elements of a (3, H, W) array in C order.
Ravel(arr) ==
  [i \in 1..(CH * H * W) |->
     arr[(i - 1) \div (H * W)][((i - 1) % (H * W)) \div W][(i - 1) % W]]

\* np.minimum and np.maximum: a NaN operand is the result.
F32Minimum(a, b) == IF IsNaN(a) THEN a ELSE IF IsNaN(b) THEN b
                    ELSE IF F32Lt(b, a) THEN b ELSE a
F32Maximum(a, b) == IF IsNaN(a) THEN a ELSE IF IsNaN(b) THEN b
                    ELSE IF F32Lt(a, b) THEN b ELSE a

\* min() and max() of a non-empty sequence of floats.
SeqMin(xs) ==
  LET RECURSIVE go(_, _)
      go(i, acc) == IF i > Len(xs) THEN acc ELSE go(i + 1, F32Minimum(acc, xs[i]))
  IN go(2, xs[1])
SeqMax(xs) ==
  LET RECURSIVE go(_, _)
      go(i, acc) == IF i > Len(xs) THEN acc ELSE go(i + 1, F32Maximum(acc, xs[i]))
  IN go(2, xs[1])

\* input_array.min() and input_array.max(): over the whole array.
ArrayMin(arr) == SeqMin(Ravel(arr))
ArrayMax(arr) == SeqMax(Ravel(arr))

\* (v - min) / range * 255.0 for one element, evaluated left to right.
NormalizeValue(v, mn, range) == F32Mul255(F32Div(F32Sub(v, mn), range))

\* A slip in the normalisation: each plane scaled by its own minimum and maximum.
Normalize_PerPlane(arr) ==
  LET flat(k) == [i \in 1..(H * W) |-> arr[k][(i - 1) \div W][(i - 1) % W]]
      mn(k) == SeqMin(flat(k))
      mx(k) == SeqMax(flat(k))
  IN [k \in 0..(CH - 1) |-> [r \in 0..(H - 1) |-> [c \in 0..(W - 1) |->
        NormalizeValue(arr[k][r][c], mn(k), F32Sub(mx(k), mn(k)))]]]

\* (input_array - input_array.min()) / (input_array.max() - input_array.min()) * 255.0
Normalize(arr) ==
  LET mn == ArrayMin(arr)
      mx == ArrayMax(arr)
      range == F32Sub(mx, mn)
  IN [k \in 0..(CH - 1) |-> [r \in 0..(H - 1) |-> [c \in 0..(W - 1) |->
        NormalizeValue(arr[k][r][c], mn, range)]]]

\* The C cast float -> unsigned char is defined when the truncated value fits.
CastDefined(x) ==
  /\ ~IsNaN(x)
  /\ ~IsInf(x)
  /\ (IsZero(x) \/ x.e < 127 \/ (x.s = 0 /\ x.e < 135))

\* The integer part of x, for x with CastDefined(x).
Truncate(x) ==
  IF x.e < 127 THEN 0
  ELSE Sig(x) \div Pow2[150 - x.e]

\* One element of astype(np.uint8); ub is what the build's cast instruction gives
\* for a value the C cast leaves undefined.
CastUint8(x, ub) == IF CastDefined(x) THEN Truncate(x) ELSE ub

ArrayCastDefined(arr) ==
  \A k \in 0..(CH - 1), r \in 0..(H - 1), c \in 0..(W - 1) : CastDefined(arr[k][r][c])

\* input_array.astype(np.uint8)
AsType(arr, ub) ==
  [k \in 0..(CH - 1) |-> [r \in 0..(H - 1) |-> [c \in 0..(W - 1) |->
     CastUint8(arr[k][r][c], ub)]]]

\* A slip in the layout: the planar array read as if it were interleaved already
\* (a reshape to (H, W, 3) in place of the transpose).
Transpose_Reinterpret(arr) ==
  [r \in 0..(H - 1) |-> [c \in 0..(W - 1) |-> [k \in 0..(CH - 1) |->
     Ravel(arr)[r * W * CH + c * CH + k + 1]]]]

\* np.transpose(input_array, (1, 2, 0)): axis 0 of the result is axis 1 of the
\* argument, axis 1 is its axis 2, axis 2 is its axis 0.  Image.fromarray(..., 'RGB')
\* reads the result as rows of pixels of three bytes.
Transpose(arr) ==
  [r \in 0..(H - 1) |-> [c \in 0..(W - 1) |-> [k \in 0..(CH - 1) |-> arr[k][r][c]]]]

\* What the cast may give where C leaves it undefined (0 on x86-64 and AArch64).
CastOutcomes == {0, 128, 255}

(***************************************************************************)
(* The files the runs are tried on.                                        *)
(***************************************************************************)
EncodeF32(x) ==
  << x.m % 256, (x.m \div 256) % 256, x.m \div 65536 + (x.e % 2) * 128,
     x.s * 128 + x.e \div 2 >>

EncodeAll(xs) ==
  LET RECURSIVE go(_)
      go(i) == IF i > Len(xs) THEN << >> ELSE EncodeF32(xs[i]) \o go(i + 1)
  IN go(1)

One == F32(0, 127, 0)
MinusOne == F32(1, 127, 0)
MaxFloat == F32(0, 254, 8388607)
MinusMaxFloat == F32(1, 254, 8388607)
PosInf == F32(0, 255, 0)
MinusInf == F32(1, 255, 0)
QuietNaN == F32(0, 255, 4194304)
MinSubnormal == F32(0, 0, 1)

Vals == {F32Zero, One, MinusOne, MaxFloat, MinusMaxFloat, PosInf, MinusInf,
         QuietNaN, MinSubnormal}

\* Sample i is the number i - 1: every position holds a value of its own.
Ramp == [i \in 1..NSamples |-> F32FromNat(i - 1)]

\* b everywhere, but v1 in the first sample (plane 0) and v2 in sample p2.
Spots(b, v1, p2, v2) ==
  [i \in 1..NSamples |-> IF i = 1 THEN v1 ELSE IF i = p2 THEN v2 ELSE b]

SpotData ==
  {EncodeAll(Spots(b, v1, p2, v2)) : b \in Vals, v1 \in Vals, v2 \in Vals,
                                      p2 \in {NSamples}}

TailBytes == {0, 255}
Repeat(x, n) == [i \in 1..n |-> x]

\* The ramp cut short at every length, and the ramp followed by extra bytes.
RampData ==
  LET full == EncodeAll(Ramp)
  IN {SubSeq(full, 1, n) : n \in 0..NBytes}
       \cup {full \o Repeat(x, n) : x \in TailBytes, n \in 1..MaxExtra}

(***************************************************************************)
(* The state.                                                              *)
(***************************************************************************)
VARIABLES
  pc,            \* the statement that runs next
  argc,          \* len(sys.argv)
  in_readable,   \* whether open(input_path, "rb") succeeds
  in_data,       \* the bytes of the input file
  in_opened,     \* whether the script has opened the input file
  out_before,    \* the output path before the run: "absent" or "previous"
  out_file,      \* the output path now: [state, pixels]
  usage_printed, \* whether the usage message went to standard output
  exit_code,     \* the process's exit status, -1 while it runs
  error,         \* the exception that ended the run, or "none"
  input_bin,     \* the script's variable of that name
  input_array,   \* the script's variable of that name
  output_image,  \* the script's variable of that name
  ub_cast        \* what the cast gave for undefined conversions, -1 if none occurred

vars == << pc, argc, in_readable, in_data, in_opened, out_before, out_file,
           usage_printed, exit_code, error, input_bin, input_array, output_image,
           ub_cast >>

env == << argc, in_readable, in_data, out_before >>

File(state, pixels) == [state |-> state, pixels |-> pixels]

InitWith(n, readable, data, before) ==
  /\ pc = "start"
  /\ argc = n
  /\ in_readable = readable
  /\ in_data = data
  /\ in_opened = FALSE
  /\ out_before = before
  /\ out_file = File(before, << >>)
  /\ usage_printed = FALSE
  /\ exit_code = -1
  /\ error = "none"
  /\ input_bin = << >>
  /\ input_array = << >>
  /\ output_image = << >>
  /\ ub_cast = -1

Init ==
  \/ \E n \in 1..MaxArgc, readable \in BOOLEAN, data \in RampData,
        before \in {"absent", "previous"} : InitWith(n, readable, data, before)
  \/ \E data \in SpotData : InitWith(3, TRUE, data, "absent")

\* An uncaught exception, or sys.exit(1): the interpreter exits with status 1.
Die(what) ==
  /\ pc' = "exit"
  /\ exit_code' = 1
  /\ error' = what

\* if len(sys.argv) < 3: print usage, sys.exit(1)
CheckArgs ==
  /\ pc = "start"
  /\ IF UsageError(argc)
     THEN /\ usage_printed' = TRUE
          /\ Die("usage")
     ELSE /\ pc' = "open"
          /\ UNCHANGED << usage_printed, exit_code, error >>
  /\ UNCHANGED << env, in_opened, out_file, input_bin, input_array, output_image,
                  ub_cast >>

\* with open(input_path, "rb") as f: input_bin = f.read()
ReadInput ==
  /\ pc = "open"
  /\ IF in_readable
     THEN /\ in_opened' = TRUE
          /\ input_bin' = in_data
          /\ pc' = "slice"
          /\ UNCHANGED << exit_code, error >>
     ELSE /\ Die("OSError")
          /\ UNCHANGED << in_opened, input_bin >>
  /\ UNCHANGED << env, out_file, usage_printed, input_array, output_image, ub_cast >>

\* input_bin = input_bin[:3 * 128 * 128 * 4]
SliceInput ==
  /\ pc = "slice"
  /\ input_bin' = Slice(input_bin)
  /\ pc' = "frombuffer"
  /\ UNCHANGED << env, in_opened, out_file, usage_printed, exit_code, error,
                  input_array, output_image, ub_cast >>

\* input_array = np.frombuffer(input_bin, dtype=np.float32)
FromBufferStep ==
  /\ pc = "frombuffer"
  /\ IF FromBufferFails(input_bin)
     THEN /\ Die("ValueError")
          /\ UNCHANGED input_array
     ELSE /\ input_array' = FromBuffer(input_bin)
          /\ pc' = "reshape"
          /\ UNCHANGED << exit_code, error >>
  /\ UNCHANGED << env, in_opened, out_file, usage_printed, input_bin, output_image,
                  ub_cast >>

\* input_array = input_array.reshape(3, 128, 128)
ReshapeStep ==
  /\ pc = "reshape"
  /\ IF Reshape(input_array).ok
     THEN /\ input_array' = Reshape(input_array).value
          /\ pc' = "normalize"
          /\ UNCHANGED << exit_code, error >>
     ELSE /\ Die("ValueError")
          /\ UNCHANGED input_array
  /\ UNCHANGED << env, in_opened, out_file, usage_printed, input_bin, output_image,
                  ub_cast >>

\* input_array = (input_array - min) / (max - min) * 255.0
NormalizeStep ==
  /\ pc = "normalize"
  /\ input_array' = Normalize(input_array)
  /\ pc' = "astype"
  /\ UNCHANGED << env, in_opened, out_file, usage_printed, exit_code, error,
                  input_bin, output_image, ub_cast >>

\* input_array = input_array.astype(np.uint8)
AsTypeStep ==
  /\ pc = "astype"
  /\ IF ArrayCastDefined(input_array)
     THEN /\ input_array' = AsType(input_array, 0)
          /\ UNCHANGED ub_cast
     ELSE \E ub \in CastOutcomes :
            /\ input_array' = AsType(input_array, ub)
            /\ ub_cast' = ub
  /\ pc' = "fromarray"
  /\ UNCHANGED << env, in_opened, out_file, usage_printed, exit_code, error,
                  input_bin, output_image >>

\* output_image = Image.fromarray(np.transpose(input_array, (1, 2, 0)), 'RGB')
FromArrayStep ==
  /\ pc = "fromarray"
  /\ output_image' = Transpose(input_array)
  /\ pc' = "save"
  /\ UNCHANGED << env, in_opened, out_file, usage_printed, exit_code, error,
                  input_bin, input_array, ub_cast >>

\* output_image.save(output_path), first half: the path is opened for writing,
\* which empties a file that is there; or the save fails before it writes (the
\* path cannot be opened, its extension names no format).
SaveOpen ==
  /\ pc = "save"
  /\ \/ /\ out_file' = File("partial", << >>)
        /\ pc' = "save_write"
        /\ UNCHANGED << exit_code, error >>
     \/ /\ Die("OSError")
        /\ UNCHANGED out_file
  /\ UNCHANGED << env, in_opened, usage_printed, input_bin, input_array,
                  output_image, ub_cast >>

\* output_image.save(output_path), second half: the encoded image is written into
\* the open file; the script ends.  A write that fails leaves what was written so
\* far (a file the save itself created may be removed again).
SaveWrite ==
  /\ pc = "save_write"
  /\ \/ /\ out_file' = File("image", output_image)
        /\ pc' = "exit"
        /\ exit_code' = 0
        /\ UNCHANGED error
     \/ /\ Die("OSError")
        /\ UNCHANGED out_file
     \/ /\ out_before = "absent"
        /\ Die("OSError")
        /\ out_file' = File("absent", << >>)
  /\ UNCHANGED << env, in_opened, usage_printed, input_bin, input_array,
                  output_image, ub_cast >>

Next ==
  \/ CheckArgs
  \/ ReadInput
  \/ SliceInput
  \/ FromBufferStep
  \/ ReshapeStep
  \/ NormalizeStep
  \/ AsTypeStep
  \/ FromArrayStep
  \/ SaveOpen
  \/ SaveWrite

Spec == Init /\ [][Next]_vars

(***************************************************************************)
(* Vocabulary of the properties.                                           *)
(***************************************************************************)
\* The run got past the argument check and read its input.
Converting == ~UsageError(argc) /\ in_readable

\* The file holds at least the 3 x H x W samples.
LongEnough == Len(in_data) >= NBytes

\* The samples the file's first NBytes bytes encode, in file order.
Samples == FromBuffer(SubSeq(in_data, 1, NBytes))

Positions == 1..NSamples
PlaneOf(i) == (i - 1) \div (H * W)
RowOf(i) == ((i - 1) % (H * W)) \div W
ColOf(i) == (i - 1) % W

Succeeded == pc = "exit" /\ exit_code = 0
Failed == pc = "exit" /\ exit_code # 0

\* The byte of the written image that belongs to sample i: component PlaneOf(i)
\* of the pixel in row RowOf(i) and column ColOf(i).
ByteOf(i) == out_file.pixels[RowOf(i)][ColOf(i)][PlaneOf(i)]

\* maxVal == minVal
ConstantInput == F32Eq(SeqMax(Samples), SeqMin(Samples))

HoldsMinimum(i) == \A j \in Positions : F32Le(Samples[i], Samples[j])
HoldsMaximum(i) == \A j \in Positions : F32Le(Samples[j], Samples[i])

\* The output path is as it was before the run.
OutputUntouched == out_file = File(out_before, << >>)

\* What the build's cast gave for undefined conversions (0 when none occurred).
CastSeen == IF ub_cast = -1 THEN 0 ELSE ub_cast

(***************************************************************************)
(* C1.  With fewer than two positional arguments the script prints the     *)
(* usage message and exits with status 1 without touching a file: it never *)
(* opens the input and the output path stays as it was.                    *)
(***************************************************************************)
C1_UsageExit ==
  argc - 1 < 2 =>
    /\ pc \in {"start", "exit"}
    /\ ~in_opened
    /\ OutputUntouched
    /\ pc = "exit" => (usage_printed /\ exit_code = 1)

C1_Witness ==
  argc - 1 = 1 /\ pc = "exit" /\ out_before = "previous" /\ in_readable

(***************************************************************************)
(* C2.  An input shorter than NBytes bytes (the empty file and lengths     *)
(* that are no multiple of 4 included) ends in failure before the save is  *)
(* reached: the output path stays as it was.                               *)
(***************************************************************************)
C2_ShortInputFails ==
  Len(in_data) < NBytes =>
    /\ pc \notin {"normalize", "astype", "fromarray", "save", "save_write"}
    /\ OutputUntouched
    /\ pc = "exit" => exit_code = 1

C2_Witness ==
  /\ Converting
  /\ pc = "exit"
  /\ error = "ValueError"
  /\ Len(in_data) = NBytes - BytesPerFloat
  /\ out_before = "previous"

(***************************************************************************)
(* C3.  When all samples are equal (maxVal == minVal) the run does not end *)
(* as a success with an image written: the arithmetic error of 0 / 0 is    *)
(* propagated.                                                             *)
(***************************************************************************)
C3_ConstantInputFails ==
  (Converting /\ LongEnough /\ pc = "exit" /\ ConstantInput) =>
    ~(exit_code = 0 /\ out_file.state = "image")

(***************************************************************************)
(* C4.  A run that fails leaves the output path as it was before the run:  *)
(* no file, or the previous file untouched; never a partly written file.   *)
(***************************************************************************)
C4_FailureLeavesOutput == Failed => OutputUntouched

(***************************************************************************)
(* C5.  For an input that is long enough and not constant, every position  *)
(* holding the global minimum is 0 in the image and every position holding *)
(* the global maximum is 255.                                              *)
(***************************************************************************)
C5_MinToZeroMaxTo255 ==
  (Succeeded /\ ~ConstantInput) =>
    \A i \in Positions :
      /\ HoldsMinimum(i) => ByteOf(i) = 0
      /\ HoldsMaximum(i) => ByteOf(i) = 255

\* max - min is a finite nonzero float32.
RangeFinite ==
  LET d == F32Sub(SeqMax(Samples), SeqMin(Samples))
  IN IsFinite(d) /\ ~IsZero(d)

\* The statement of C5 for the inputs with RangeFinite, where the code does as
\* claimed.
C5_FiniteRange ==
  (Succeeded /\ RangeFinite) =>
    \A i \in Positions :
      /\ HoldsMinimum(i) => ByteOf(i) = 0
      /\ HoldsMaximum(i) => ByteOf(i) = 255

C5_FiniteRangeWitness ==
  /\ Succeeded
  /\ RangeFinite
  /\ \E i, j \in Positions : HoldsMinimum(i) /\ HoldsMaximum(j) /\ PlaneOf(i) # PlaneOf(j)

(***************************************************************************)
(* C6.  For an input that is long enough and not constant, the byte of     *)
(* every sample v is the integer part of (v - min) / (max - min) * 255.0   *)
(* (as float32 evaluates it): b <= x < b + 1; with min -1.0 and max 1.0    *)
(* the sample 0.0 becomes 127.                                             *)
(***************************************************************************)
NormalizedOf(i) ==
  LET mn == SeqMin(Samples)
      mx == SeqMax(Samples)
  IN NormalizeValue(Samples[i], mn, F32Sub(mx, mn))

IsIntegerPart(b, x) ==
  /\ b \in 0..255
  /\ F32Le(F32FromNat(b), x)
  /\ F32Lt(x, F32FromNat(b + 1))

C6_Truncates ==
  (Succeeded /\ ~ConstantInput) =>
    \A i \in Positions : IsIntegerPart(ByteOf(i), NormalizedOf(i))

\* The statement of C6 for the samples whose normalised value is a number, where
\* the code truncates as claimed.
C6_TruncatesNumbers ==
  Succeeded =>
    \A i \in Positions :
      ~IsNaN(NormalizedOf(i)) => IsIntegerPart(ByteOf(i), NormalizedOf(i))

C6_TruncatesNumbersWitness ==
  /\ Succeeded
  /\ SeqMin(Samples) = MinusOne
  /\ SeqMax(Samples) = One
  /\ \E i \in Positions : Samples[i] = F32Zero /\ ByteOf(i) = 127

(***************************************************************************)
(* C7.  Component k of the pixel in row r and column c of the image is the *)
(* quantised value of the input sample at linear index k*H*W + r*W + c:    *)
(* plane 0 is R, plane 1 is G, plane 2 is B, each plane read row by row.   *)
(***************************************************************************)
QuantizedOf(n) == CastUint8(NormalizedOf(n + 1), CastSeen)

C7_PlanarToInterleaved ==
  Succeeded =>
    \A r \in 0..(H - 1), c \in 0..(W - 1), k \in 0..(CH - 1) :
      out_file.pixels[r][c][k] = QuantizedOf(k * H * W + r * W + c)

\* The ramp was converted: all bytes of the image differ.
C7_Witness ==
  /\ Succeeded
  /\ Samples = Ramp
  /\ \A i, j \in Positions : i # j => ByteOf(i) # ByteOf(j)

(***************************************************************************)
(* Planes, for C8.                                                         *)
(***************************************************************************)
PlaneSamples(k) == [i \in 1..(H * W) |-> Samples[k * H * W + i]]
PlaneMin(k) == SeqMin(PlaneSamples(k))
PlanePositions(k) == {i \in Positions : PlaneOf(i) = k}

SameValue(a, b) == a = b \/ F32Eq(a, b)

SameValueSameByte ==
  \A i, j \in Positions : SameValue(Samples[i], Samples[j]) => ByteOf(i) = ByteOf(j)

(***************************************************************************)
(* C8 as claimed.  One global minimum and maximum serve all three planes:  *)
(* samples of the same value get the same byte whatever planes they lie    *)
(* in, and a plane whose own minimum is above the global minimum holds no  *)
(* 0 byte.                                                                 *)
(***************************************************************************)
C8_Original ==
  Succeeded =>
    /\ SameValueSameByte
    /\ \A k \in 0..(CH - 1) :
         F32Lt(SeqMin(Samples), PlaneMin(k)) =>
           \A i \in PlanePositions(k) : ByteOf(i) # 0

NormalizedPlaneMin(k) ==
  NormalizeValue(PlaneMin(k), SeqMin(Samples), F32Sub(SeqMax(Samples), SeqMin(Samples)))

(***************************************************************************)
(* C8 as amended.  Samples of the same value get the same byte whatever    *)
(* planes they lie in; a plane whose own minimum is above the global       *)
(* minimum holds no 0 byte when that minimum normalises to 1.0 or more,    *)
(* and holds a 0 byte when it normalises to a number below 1.0, which      *)
(* truncation sends to 0.                                                  *)
(***************************************************************************)
C8_GlobalExtremes ==
  Succeeded =>
    /\ SameValueSameByte
    /\ \A k \in 0..(CH - 1) :
         /\ (F32Lt(SeqMin(Samples), PlaneMin(k)) /\ F32Le(One, NormalizedPlaneMin(k)))
              => \A i \in PlanePositions(k) : ByteOf(i) # 0
         /\ (F32Lt(SeqMin(Samples), PlaneMin(k)) /\ F32Lt(NormalizedPlaneMin(k), One))
              => \E i \in PlanePositions(k) : ByteOf(i) = 0

C8_Witness ==
  /\ Succeeded
  /\ \E k \in 0..(CH - 1) :
       F32Lt(SeqMin(Samples), PlaneMin(k)) /\ F32Le(One, NormalizedPlaneMin(k))
  /\ \E k \in 0..(CH - 1) :
       F32Lt(SeqMin(Samples), PlaneMin(k)) /\ F32Lt(NormalizedPlaneMin(k), One)
  /\ \E i, j \in Positions :
       PlaneOf(i) # PlaneOf(j) /\ Samples[i] = Samples[j] /\ ByteOf(i) # 0

(***************************************************************************)
(* C9.  Only the first NBytes bytes are consumed: a file A followed by any *)
(* bytes T is converted as A alone is.  The run fails only where the save  *)
(* fails, and the image written is the image of A.                         *)
(***************************************************************************)
ImageOfPrefix ==
  Transpose(AsType(Normalize(Reshape(Samples).value), CastSeen))

C9_PrefixOnly ==
  (Converting /\ LongEnough) =>
    /\ pc = "exit" => error \in {"none", "OSError"}
    /\ pc \in {"save", "save_write", "exit"} => output_image = ImageOfPrefix
    /\ Succeeded => out_file = File("image", ImageOfPrefix)

C9_Witness ==
  /\ Succeeded
  /\ Len(in_data) = NBytes + MaxExtra
  /\ in_data[Len(in_data)] = 255
  /\ out_file.state = "image"

(***************************************************************************)
(* C10.  For an input that is long enough and not constant the bytes keep  *)
(* the order of the samples (a <= b gives byte(a) <= byte(b), whatever the *)
(* planes) and stay in range: no value the cast is given lies outside      *)
(* [0, 255], so no byte wraps around.                                      *)
(***************************************************************************)
F32Of255 == F32FromNat(255)

C10_OrderAndRange ==
  (Succeeded /\ ~ConstantInput) =>
    /\ \A i, j \in Positions :
         F32Le(Samples[i], Samples[j]) => ByteOf(i) <= ByteOf(j)
    /\ \A i \in Positions :
         /\ ByteOf(i) \in 0..255
         /\ ~IsNaN(NormalizedOf(i)) =>
              (F32Le(F32Zero, NormalizedOf(i)) /\ F32Le(NormalizedOf(i), F32Of255))

C10_Witness ==
  /\ Succeeded
  /\ ~ConstantInput
  /\ \E i, j, l \in Positions :
       /\ F32Lt(Samples[i], Samples[j]) /\ F32Lt(Samples[j], Samples[l])
       /\ ByteOf(i) = 0 /\ ByteOf(j) = 127 /\ ByteOf(l) = 255
       /\ PlaneOf(i) # PlaneOf(l)

=============================================================================
